---- MODULE Spec2Model ----
(***************************************************************************)
(* Model of nixci's system-list resolution (crates/nixci/src/nix/          *)
(* system_list.rs) and of its subflakes configuration collection           *)
(* (crates/nixci/src/config/subflakes.rs).                                 *)
(*                                                                         *)
(* Spec          : concurrent SystemsList::from_flake calls against the    *)
(*                 known registry NIX_SYSTEMS and the external evaluator.  *)
(* SpecSubflakes : SubflakesConfig values built by default(), by           *)
(*                 deserialization and by insertion into the public map.   *)
(***************************************************************************)
EXTENDS Naturals, Sequences, FiniteSets

VARIABLES
    NIX_SYSTEMS,    \* the registry: a function name -> flake URL
    pc,             \* per call: idle, await1, await2, done
    arg,            \* per call: how the caller built the reference, and from what
    url,            \* per call: the FlakeUrl inside the SystemsListFlakeRef
    flake_path,     \* per call: the local of nix_import_flake (step 1's output)
    result,         \* per call: what from_flake returned
    invocations,    \* per call: the evaluator invocations it issued, in order
    subflakes,      \* per slot: a SubflakesConfig value, or Absent
    built,          \* per slot: the keys put into the value (history)
    last            \* the latest operation on a configuration value (history)

sysVars == <<NIX_SYSTEMS, pc, arg, url, flake_path, result, invocations>>
subVars == <<subflakes, built, last>>
vars == <<NIX_SYSTEMS, pc, arg, url, flake_path, result, invocations, subflakes, built, last>>

(***************************************************************************)
(* Bounds of the model.                                                    *)
(***************************************************************************)
NumCalls == 2
MaxEntries == 3
MaxRead == 2

Calls == 1..NumCalls

(***************************************************************************)
(* Strings of the system-list part.                                        *)
(***************************************************************************)
SinglePlatformNames == {"aarch64-linux"}
CombinationNames == {"default-linux", "empty"}
KnownNames == SinglePlatformNames \cup CombinationNames

\* The repositories of https://github.com/nix-systems, as the tests write them.
GithubUrl(n) ==
    CASE n = "aarch64-linux"  -> "github:nix-systems/aarch64-linux"
      [] n = "default-linux"  -> "github:nix-systems/default-linux"
      [] n = "empty"          -> "github:nix-systems/empty"

UrlStrings == {GithubUrl(n) : n \in KnownNames}
InputStrings == KnownNames \cup UrlStrings

\* System::from(String): the platform identifier carrying that string.
SystemFrom(name) == [system |-> name]

\* What each nix-systems repository denotes, as the tests expect it.
ExpectedSystems(u) ==
    CASE u = "github:nix-systems/default-linux"
            -> <<SystemFrom("aarch64-linux"), SystemFrom("x86_64-linux")>>
      [] u = "github:nix-systems/default-darwin"
            -> <<SystemFrom("aarch64-darwin"), SystemFrom("x86_64-darwin")>>
      [] u = "github:nix-systems/aarch64-linux" -> <<SystemFrom("aarch64-linux")>>
      [] u = "github:nix-systems/x86_64-linux"  -> <<SystemFrom("x86_64-linux")>>
      [] u = "github:nix-systems/empty"         -> <<>>

\* The registries the build may embed: the single-platform repositories only,
\* or every nix-systems repository. Each is injective (distinct entries).
Registries ==
    { [n \in K |-> GithubUrl(n)] : K \in {SinglePlatformNames, KnownNames} }

(***************************************************************************)
(* The external evaluator (nix eval --impure --json --expr), a black box:  *)
(* an invocation ends with a decoded value or with a NixCmdError.          *)
(***************************************************************************)
StorePaths == {"/nix/store/aaa-source", "/nix/store/bbb-source"}
EvaluatedLists ==
    { <<>>,
      <<SystemFrom("aarch64-linux"), SystemFrom("x86_64-linux")>> }
ErrorKinds == {"spawn", "exit", "decode"}

\* format!("builtins.getFlake \"{}\"", url.0)
GetFlakeExpr(u) == [fn |-> "builtins.getFlake", arg |-> u]
\* format!("import {}", flake_path)
ImportExpr(path) == [fn |-> "import", arg |-> path]

\* The NixCmdError of a failed invocation of expression e.
NixCmdError(kind, e) == [kind |-> kind, expr |-> e]

Pending == [tag |-> "Pending"]
Returned(v) == [tag |-> "Ok", val |-> v]
Failed(err) == [tag |-> "Err", err |-> err]

NoResult == [tag |-> "None"]
Ok(systems) == [tag |-> "Ok", systems |-> systems]
Err(err) == [tag |-> "Err", err |-> err]

(***************************************************************************)
(* SystemsListFlakeRef::from_str and SystemsList::from_known_flake.        *)
(***************************************************************************)
\* Variant: the string is taken verbatim, without the registry lookup.
FromStrVerbatim(s) == [ok |-> TRUE, url |-> s]

\* from_str never returns Err: the result is always Ok(SystemsListFlakeRef(url)).
SystemsListFlakeRef_from_str(s) ==
    [ok |-> TRUE,
     url |-> IF s \in DOMAIN NIX_SYSTEMS THEN NIX_SYSTEMS[s] ELSE s]

\* Variant: the lookup compares the registry's names, not its URLs.
KnownMatchesByName(u) == { v \in DOMAIN NIX_SYSTEMS : v = u }

\* The names v whose registry value u equals the reference's URL; find_map
\* returns the first of them in the map's iteration order.
KnownMatches(u) == { v \in DOMAIN NIX_SYSTEMS : NIX_SYSTEMS[v] = u }

\* Variant: the closure's pair is taken the other way round (the URL is wrapped).
KnownSystemsListOfUrl(v) == <<SystemFrom(NIX_SYSTEMS[v])>>

\* Some(SystemsList(vec![system.clone().into()])) for the name found.
KnownSystemsList(v) == <<SystemFrom(v)>>

\* Variant: the flake path lives in a place the calls share, so that a call
\* imports the path another call stored there.
Step2ExprShared(c, path) ==
    IF \E d \in Calls \ {c} : flake_path[d] # ""
    THEN ImportExpr(flake_path[CHOOSE d \in Calls \ {c} : flake_path[d] # ""])
    ELSE ImportExpr(path)

\* The expression nix_import_flake sends at step 2: the import of flake_path,
\* the local that holds what the call's own step 1 returned.
Step2Expr(c, path) == ImportExpr(path)

\* Variant: a failed step 2 is turned into the default of T, the empty list.
Step2FailureAsDefault(e) == Ok(<<>>)

\* `?` on a failed step: the error is what the call returns.
Step1Failure(e) == Err(e)
Step2Failure(e) == Err(e)

(***************************************************************************)
(* Subflakes: keys are strings, as their bytes; BTreeMap orders them       *)
(* lexicographically by byte.                                              *)
(***************************************************************************)
RootKey == <<60, 114, 111, 111, 116, 62>>   \* "<root>"
KeyA == <<97>>                              \* "a"
KeyB == <<98>>                              \* "b"
KeyC == <<99>>                              \* "c"
Keys == {RootKey, KeyA, KeyB, KeyC}

SubflakeConfigDefault == "SubflakeConfig::default()"
SubflakeConfigs == {SubflakeConfigDefault, "SubflakeConfig{custom}"}

Slots == {"s1", "s2"}
Absent == <<[key |-> <<>>, val |-> "absent"]>>

RECURSIVE LexLess(_, _)
\* Ord for String: byte-wise lexicographic, a proper prefix first.
LexLess(a, b) ==
    IF a = <<>> THEN b # <<>>
    ELSE IF b = <<>> THEN FALSE
    ELSE IF Head(a) < Head(b) THEN TRUE
    ELSE IF Head(a) > Head(b) THEN FALSE
    ELSE LexLess(Tail(a), Tail(b))

\* BTreeMap::new()
BTreeNew == <<>>

\* The position of the first entry whose key is not less than k.
SearchPos(m, k) ==
    IF \E i \in 1..Len(m) : ~LexLess(m[i].key, k)
    THEN CHOOSE i \in 1..Len(m) :
            /\ ~LexLess(m[i].key, k)
            /\ \A j \in 1..(i - 1) : LexLess(m[j].key, k)
    ELSE Len(m) + 1

\* Variant: an insertion-ordered map (a new key goes to the end).
InsertionOrderedInsert(m, k, v) ==
    IF \E i \in 1..Len(m) : m[i].key = k
    THEN [i \in 1..Len(m) |-> IF m[i].key = k THEN [key |-> k, val |-> v] ELSE m[i]]
    ELSE Append(m, [key |-> k, val |-> v])

\* BTreeMap::insert: replaces the value of an equal key, else places the
\* entry at its position in key order.
BTreeInsert(m, k, v) ==
    LET p == SearchPos(m, k) IN
    IF p <= Len(m) /\ m[p].key = k
    THEN [m EXCEPT ![p] = [key |-> k, val |-> v]]
    ELSE SubSeq(m, 1, p - 1) \o <<[key |-> k, val |-> v]>> \o SubSeq(m, p, Len(m))

\* BTreeMap iteration: the keys in the order the map yields them.
IterKeys(m) == [i \in 1..Len(m) |-> m[i].key]

\* Variant: default() returns the map before the root entry is put in.
SubflakesConfigDefaultEmpty == BTreeNew

\* SubflakesConfig::default()
SubflakesConfigDefault == BTreeInsert(BTreeNew, RootKey, SubflakeConfigDefault)

RECURSIVE InsertAll(_, _)
\* Deserialization of a map: the entries inserted in the order read.
InsertAll(m, entries) ==
    IF entries = <<>> THEN m
    ELSE InsertAll(BTreeInsert(m, Head(entries).key, Head(entries).val), Tail(entries))

\* The entry sequences a deserialized map is read from.
EntrySeqs ==
    UNION { [1..n -> [key : Keys, val : SubflakeConfigs]] : n \in 0..MaxRead }

\* History of the configuration values: per slot the keys put into it, and
\* for the latest operation its kind, its slot, and whether it put a key in
\* after a greater one ("before") or put a key in again ("again").
NotBuilt == {}
NoOp == [op |-> "none", slot |-> "", order |-> "ascending"]

RECURSIVE OrderOf(_, _, _)
OrderOf(order, keys, ks) ==
    IF ks = <<>> THEN order
    ELSE OrderOf(
            IF Head(ks) \in keys THEN "again"
            ELSE IF order = "ascending" /\ \E k \in keys : LexLess(Head(ks), k)
                 THEN "before"
                 ELSE order,
            keys \cup {Head(ks)},
            Tail(ks))

(***************************************************************************)
(* Initial state: the registry is initialized, no call has started, no     *)
(* configuration value exists.                                             *)
(***************************************************************************)
Init ==
    /\ NIX_SYSTEMS \in Registries
    /\ pc = [c \in Calls |-> "idle"]
    /\ arg = [c \in Calls |-> [via |-> "none", s |-> ""]]
    /\ url = [c \in Calls |-> ""]
    /\ flake_path = [c \in Calls |-> ""]
    /\ result = [c \in Calls |-> NoResult]
    /\ invocations = [c \in Calls |-> <<>>]
    /\ subflakes = [s \in Slots |-> Absent]
    /\ built = [s \in Slots |-> NotBuilt]
    /\ last = NoOp

(***************************************************************************)
(* SystemsList::from_flake. An async fn runs without interruption up to    *)
(* its next suspension point, and the only suspension points of a call are *)
(* the two evaluator invocations: the registry lookup and, on a miss, the  *)
(* issue of invocation 1 are one step.                                     *)
(***************************************************************************)
FromFlakeBegin(c, a, u) ==
    /\ pc[c] = "idle"
    /\ arg' = [arg EXCEPT ![c] = a]
    /\ url' = [url EXCEPT ![c] = u]
    /\ IF KnownMatches(u) # {}
       THEN /\ \E v \in KnownMatches(u) :
                 result' = [result EXCEPT ![c] = Ok(KnownSystemsList(v))]
            /\ pc' = [pc EXCEPT ![c] = "done"]
            /\ invocations' = invocations
       ELSE /\ result' = result
            /\ pc' = [pc EXCEPT ![c] = "await1"]
            /\ invocations' = [invocations EXCEPT
                    ![c] = Append(@, [expr |-> GetFlakeExpr(u), outcome |-> Pending])]
    /\ UNCHANGED <<NIX_SYSTEMS, flake_path, subflakes, built, last>>

\* A caller parses a string and resolves the reference.
FromStrCall(c) ==
    \E s \in InputStrings :
        /\ SystemsListFlakeRef_from_str(s).ok
        /\ FromFlakeBegin(c, [via |-> "from_str", s |-> s],
                          SystemsListFlakeRef_from_str(s).url)

\* A caller builds SystemsListFlakeRef(FlakeUrl(u)) itself, as the tests do.
DirectCall(c) ==
    \E u \in UrlStrings :
        FromFlakeBegin(c, [via |-> "direct", s |-> u], u)

\* Step 1 succeeded: its output, decoded as a String, is the flake path, and
\* nix_import_flake issues invocation 2, the import of that path.
Return1Ok(c) ==
    /\ pc[c] = "await1"
    /\ \E path \in StorePaths :
        /\ flake_path' = [flake_path EXCEPT ![c] = path]
        /\ invocations' = [invocations EXCEPT
                ![c] = Append([@ EXCEPT ![1].outcome = Returned(path)],
                              [expr |-> Step2Expr(c, path), outcome |-> Pending])]
    /\ pc' = [pc EXCEPT ![c] = "await2"]
    /\ UNCHANGED <<NIX_SYSTEMS, arg, url, result, subflakes, built, last>>

\* Variant: a failed step 1 is tried again.
Return1ErrRetry(c) ==
    /\ pc[c] = "await1"
    /\ \E kind \in ErrorKinds :
        LET e == NixCmdError(kind, invocations[c][Len(invocations[c])].expr) IN
        invocations' = [invocations EXCEPT
            ![c] = Append([@ EXCEPT ![Len(@)].outcome = Failed(e)],
                          [expr |-> GetFlakeExpr(url[c]), outcome |-> Pending])]
    /\ UNCHANGED <<NIX_SYSTEMS, pc, arg, url, flake_path, result, subflakes, built, last>>

\* Step 1 failed: `?` returns the error from nix_import_flake, from
\* from_remote_flake and so from from_flake.
Return1Err(c) ==
    /\ pc[c] = "await1"
    /\ \E kind \in ErrorKinds :
        LET e == NixCmdError(kind, invocations[c][1].expr) IN
        /\ invocations' = [invocations EXCEPT ![c][1].outcome = Failed(e)]
        /\ result' = [result EXCEPT ![c] = Step1Failure(e)]
    /\ pc' = [pc EXCEPT ![c] = "done"]
    /\ UNCHANGED <<NIX_SYSTEMS, arg, url, flake_path, subflakes, built, last>>

\* Step 2 succeeded: its output, decoded as Vec<System>, is the result.
Return2Ok(c) ==
    /\ pc[c] = "await2"
    /\ \E systems \in EvaluatedLists :
        /\ invocations' = [invocations EXCEPT ![c][2].outcome = Returned(systems)]
        /\ result' = [result EXCEPT ![c] = Ok(systems)]
    /\ pc' = [pc EXCEPT ![c] = "done"]
    /\ UNCHANGED <<NIX_SYSTEMS, arg, url, flake_path, subflakes, built, last>>

\* Step 2 failed: `?` returns the error.
Return2Err(c) ==
    /\ pc[c] = "await2"
    /\ \E kind \in ErrorKinds :
        LET e == NixCmdError(kind, invocations[c][2].expr) IN
        /\ invocations' = [invocations EXCEPT ![c][2].outcome = Failed(e)]
        /\ result' = [result EXCEPT ![c] = Step2Failure(e)]
    /\ pc' = [pc EXCEPT ![c] = "done"]
    /\ UNCHANGED <<NIX_SYSTEMS, arg, url, flake_path, subflakes, built, last>>

Next ==
    \E c \in Calls :
        \/ FromStrCall(c)
        \/ DirectCall(c)
        \/ Return1Ok(c)
        \/ Return1Err(c)
        \/ Return2Ok(c)
        \/ Return2Err(c)

Spec == Init /\ [][Next]_vars

(***************************************************************************)
(* Subflakes configuration values.                                         *)
(***************************************************************************)
\* let x = SubflakesConfig::default();
Default(s) ==
    /\ subflakes[s] = Absent
    /\ subflakes' = [subflakes EXCEPT ![s] = SubflakesConfigDefault]
    /\ built' = [built EXCEPT ![s] = {RootKey}]
    /\ last' = [op |-> "default", slot |-> s, order |-> "ascending"]
    /\ UNCHANGED sysVars

\* A SubflakesConfig deserialized from a map of entries.
Deserialize(s) ==
    /\ subflakes[s] = Absent
    /\ \E entries \in EntrySeqs :
        LET ks == [i \in 1..Len(entries) |-> entries[i].key] IN
        /\ subflakes' = [subflakes EXCEPT ![s] = InsertAll(BTreeNew, entries)]
        /\ built' = [built EXCEPT ![s] = {ks[i] : i \in 1..Len(ks)}]
        /\ last' = [op |-> "deserialize", slot |-> s,
                    order |-> OrderOf("ascending", {}, ks)]
    /\ UNCHANGED sysVars

\* config.0.insert(k, v) on the public map.
Insert(s) ==
    /\ subflakes[s] # Absent
    /\ \E k \in Keys, v \in SubflakeConfigs :
        /\ \/ Len(subflakes[s]) < MaxEntries
           \/ k \in built[s]
        /\ subflakes' = [subflakes EXCEPT ![s] = BTreeInsert(@, k, v)]
        /\ built' = [built EXCEPT ![s] = @ \cup {k}]
        /\ last' = [op |-> "insert", slot |-> s,
                    order |-> OrderOf("ascending", built[s], <<k>>)]
    /\ UNCHANGED sysVars

NextSubflakes ==
    \E s \in Slots :
        \/ Default(s)
        \/ Deserialize(s)
        \/ Insert(s)

\* No system-list call runs here: one registry stands for all.
InitSubflakes == Init /\ DOMAIN NIX_SYSTEMS = KnownNames

SpecSubflakes == InitSubflakes /\ [][NextSubflakes]_vars

(***************************************************************************)
(* Properties of system-list resolution (checked under Spec).              *)
(***************************************************************************)
Started(c) == pc[c] # "idle"
Done(c) == pc[c] = "done"
ViaFromStr(c, s) == arg[c] = [via |-> "from_str", s |-> s]
OnFastPath(c) == Started(c) /\ KnownMatches(url[c]) # {}
OnFallbackPath(c) == Started(c) /\ KnownMatches(url[c]) = {}

\* C1: for every registry name n that denotes a single platform, from_flake
\* on from_str(n) has returned Ok([System(n)]) as soon as it was called, and
\* the call issued no evaluator invocation.
C1_KnownSinglePlatformIsLocal ==
    \A c \in Calls :
        \A n \in SinglePlatformNames \cap DOMAIN NIX_SYSTEMS :
            (Started(c) /\ ViaFromStr(c, n)) =>
                /\ Done(c)
                /\ result[c] = Ok(<<SystemFrom(n)>>)
                /\ invocations[c] = <<>>

C1_Witness ==
    \E c \in Calls :
        /\ ViaFromStr(c, "aarch64-linux")
        /\ "aarch64-linux" \in DOMAIN NIX_SYSTEMS
        /\ Done(c)
        /\ result[c] = Ok(<<SystemFrom("aarch64-linux")>>)
        /\ invocations[c] = <<>>

\* C2: from_flake on the locator the registry associates with the name
\* "empty" returns Ok with an empty list.
C2_EmptySourceYieldsNoSystems ==
    \A c \in Calls :
        ( /\ Done(c)
          /\ "empty" \in DOMAIN NIX_SYSTEMS
          /\ url[c] = NIX_SYSTEMS["empty"] ) =>
            result[c] = Ok(<<>>)

MultiPlatformNames == {"default-linux", "default-darwin"}

\* C3: from_flake on a registry-known multi-platform source returns the
\* platforms that source denotes, in its order (default-linux yields
\* aarch64-linux, x86_64-linux).
C3_KnownCombinationYieldsItsPlatforms ==
    \A c \in Calls :
        \A n \in MultiPlatformNames \cap DOMAIN NIX_SYSTEMS :
            (Done(c) /\ url[c] = NIX_SYSTEMS[n]) =>
                result[c] = Ok(ExpectedSystems(url[c]))

\* C4: on a registry miss a call issues invocation 1 (builtins.getFlake of
\* the locator) and then invocation 2 (the import of the path invocation 1
\* returned), each at most once and 2 only after 1 has succeeded; when
\* invocation 1 fails the call is over with that error and one invocation.
C4_TwoStepsOnceInOrder ==
    \A c \in Calls :
        OnFallbackPath(c) =>
            LET inv == invocations[c] IN
            /\ Len(inv) \in {1, 2}
            /\ inv[1].expr = GetFlakeExpr(url[c])
            /\ (pc[c] = "await1") = (inv[1].outcome = Pending)
            /\ Len(inv) = 2 =>
                  /\ inv[1].outcome.tag = "Ok"
                  /\ inv[2].expr = ImportExpr(inv[1].outcome.val)
            /\ inv[1].outcome.tag = "Ok" => Len(inv) = 2
            /\ inv[1].outcome.tag = "Err" =>
                  /\ Len(inv) = 1
                  /\ Done(c)
                  /\ result[c] = Err(inv[1].outcome.err)

C4_Witness ==
    \E c, d \in Calls :
        /\ OnFallbackPath(c) /\ Done(c)
        /\ Len(invocations[c]) = 1
        /\ invocations[c][1].outcome.tag = "Err"
        /\ OnFallbackPath(d) /\ Done(d)
        /\ Len(invocations[d]) = 2
        /\ result[d].tag = "Ok"

\* C5: for every registry entry (n, u), from_str(n) and from_str(u) give
\* references on which from_flake returns the same list, both without any
\* evaluator invocation.
C5_NameAndLocatorAgree ==
    \A n \in DOMAIN NIX_SYSTEMS :
        \A c, d \in Calls :
            ( /\ Started(c) /\ ViaFromStr(c, n)
              /\ Started(d) /\ ViaFromStr(d, NIX_SYSTEMS[n]) ) =>
                /\ url[c] = url[d]
                /\ Done(c) /\ Done(d)
                /\ result[c].tag = "Ok"
                /\ result[c] = result[d]
                /\ invocations[c] = <<>>
                /\ invocations[d] = <<>>

C5_Witness ==
    \E c, d \in Calls :
        /\ ViaFromStr(c, "default-linux")
        /\ "default-linux" \in DOMAIN NIX_SYSTEMS
        /\ ViaFromStr(d, NIX_SYSTEMS["default-linux"])
        /\ Done(c) /\ Done(d)
        /\ result[c] = result[d]

\* C8: a finished call on the fallback path returns Err exactly when one of
\* its invocations failed, and then that invocation's error; it returns Ok
\* only with the list its invocation 2 returned (so an empty list only when
\* that list is empty); a call on the fast path returns Ok; an unfinished
\* call has no result.
C8_ErrorsAreForwarded ==
    \A c \in Calls :
        /\ ~Done(c) => result[c] = NoResult
        /\ Done(c) => result[c].tag \in {"Ok", "Err"}
        /\ (Done(c) /\ OnFastPath(c)) => result[c].tag = "Ok"
        /\ (Done(c) /\ OnFallbackPath(c)) =>
              LET inv == invocations[c]
                  fin == inv[Len(inv)].outcome
              IN  /\ \A i \in 1..(Len(inv) - 1) : inv[i].outcome.tag = "Ok"
                  /\ fin.tag = "Err" => result[c] = Err(fin.err)
                  /\ fin.tag = "Ok" =>
                        /\ Len(inv) = 2
                        /\ result[c] = Ok(fin.val)
                  /\ fin.tag \in {"Ok", "Err"}

C8_Witness ==
    \E c, d \in Calls :
        /\ Done(c) /\ OnFallbackPath(c)
        /\ Len(invocations[c]) = 2
        /\ invocations[c][2].outcome.tag = "Err"
        /\ result[c].tag = "Err"
        /\ Done(d) /\ OnFallbackPath(d)
        /\ result[d] = Ok(<<>>)

\* C9: from_str fails for no string; for a call made through from_str(s) the
\* reference carries the registry's locator of s when s is a registry name,
\* and s itself otherwise; for a registry name it is not the bare name.
C9_FromStrNormalizes ==
    /\ \A s \in InputStrings : SystemsListFlakeRef_from_str(s).ok
    /\ \A c \in Calls :
        \A s \in InputStrings :
            (Started(c) /\ ViaFromStr(c, s)) =>
                /\ s \in DOMAIN NIX_SYSTEMS => url[c] = NIX_SYSTEMS[s] /\ url[c] # s
                /\ s \notin DOMAIN NIX_SYSTEMS => url[c] = s

C9_Witness ==
    \E c, d \in Calls :
        /\ ViaFromStr(c, "empty") /\ "empty" \in DOMAIN NIX_SYSTEMS
        /\ url[c] = "github:nix-systems/empty"
        /\ ViaFromStr(d, "github:nix-systems/default-linux")
        /\ url[d] = "github:nix-systems/default-linux"

\* The state of one call, and the result it has when it runs alone.
CallState(c) == <<pc[c], arg[c], url[c], flake_path[c], result[c], invocations[c]>>

OutcomeAlone(c) ==
    IF KnownMatches(url[c]) # {}
    THEN Ok(<<SystemFrom(CHOOSE v \in KnownMatches(url[c]) : TRUE)>>)
    ELSE LET fin == invocations[c][Len(invocations[c])].outcome IN
         IF fin.tag = "Err" THEN Err(fin.err) ELSE Ok(fin.val)

CallsAreIsolated ==
    \A c \in Calls :
        /\ Len(invocations[c]) = 2 =>
              /\ invocations[c][1].outcome = Returned(flake_path[c])
              /\ invocations[c][2].expr = ImportExpr(flake_path[c])
        /\ Done(c) => result[c] = OutcomeAlone(c)

StepTouchesOneCall ==
    /\ NIX_SYSTEMS' = NIX_SYSTEMS
    /\ \A c, d \in Calls :
          (c # d /\ CallState(c)' # CallState(c)) => CallState(d)' = CallState(d)

\* C10: no step changes the registry; a step of one call changes nothing of
\* another call; invocation 2 of a call imports the path that the same
\* call's invocation 1 returned; and a call's result is the one its own
\* locator and its own invocations' outcomes determine.
C10_ConcurrentCallsIndependent ==
    [][StepTouchesOneCall]_vars /\ []CallsAreIsolated

C10_Witness ==
    \E c, d \in Calls :
        /\ c # d
        /\ pc[c] = "await2" /\ pc[d] = "await2"
        /\ flake_path[c] # flake_path[d]
        /\ url[c] = url[d]

(***************************************************************************)
(* Properties of SubflakesConfig (checked under SpecSubflakes).            *)
(***************************************************************************)
StrictlyAscending(ks) ==
    \A i \in 1..(Len(ks) - 1) : LexLess(ks[i], ks[i + 1])

\* C6: whatever keys were put into a SubflakesConfig, in whatever order and
\* however often, iteration yields exactly those keys, each once, in
\* strictly ascending lexicographic order.
C6_IterationAscending ==
    \A s \in Slots :
        subflakes[s] # Absent =>
            LET ks == IterKeys(subflakes[s]) IN
            /\ StrictlyAscending(ks)
            /\ {ks[i] : i \in 1..Len(ks)} = built[s]
            /\ Len(ks) = Cardinality(built[s])

C6_Witness ==
    \E s \in Slots :
        /\ last = [op |-> "insert", slot |-> s, order |-> "before"]
        /\ built[s] = {KeyA, KeyB, KeyC}
        /\ IterKeys(subflakes[s]) = <<KeyA, KeyB, KeyC>>

\* A step that is a call of default() into slot s.
DefaultReturnsRootOnly ==
    \A s \in Slots :
        (last'.op = "default" /\ last'.slot = s /\ subflakes[s] = Absent) =>
            /\ Len(subflakes'[s]) = 1
            /\ subflakes'[s][1] = [key |-> RootKey, val |-> SubflakeConfigDefault]
            /\ \A t \in Slots \ {s} : subflakes'[t] = subflakes[t]
            /\ sysVars' = sysVars

\* C7: a call of SubflakesConfig::default() returns the collection whose
\* one entry is "<root>" with the default SubflakeConfig, whatever was built
\* before, and changes no other value and nothing else.
C7_DefaultIsRootOnly == [][DefaultReturnsRootOnly]_vars

C7_Witness ==
    \E s, t \in Slots :
        /\ s # t
        /\ last = [op |-> "default", slot |-> t, order |-> "ascending"]
        /\ subflakes[t] = <<[key |-> RootKey, val |-> SubflakeConfigDefault]>>
        /\ built[s] = {RootKey, KeyA}
        /\ subflakes[s][1].val # SubflakeConfigDefault

====
